---------------------------- MODULE Spec2Model ----------------------------
(***************************************************************************)
(* A model of the report-management screen: the FiltersForm component      *)
(* with its useDebounce hook (debounced search and auto-submit), and the   *)
(* CSV export chain (handleExportCSV -> exportAsCSV -> convertToCSV ->     *)
(* downloadFile).                                                           *)
(*                                                                         *)
(* Every event handler and every timer callback is one action: the handler *)
(* body, the re-render it causes and the effects of that render (React     *)
(* runs them in hook order: the useDebounce effect, then the auto-submit   *)
(* effect).                                                                 *)
(*                                                                         *)
(* The initialFilters prop and the record list come from useReportsData,   *)
(* which is not among the sources: the prop is any of a few partial filter *)
(* objects with string values and stays the same while the form is         *)
(* mounted; the record list changes at any time between two events.        *)
(* handleExportCSV is modelled as the function it is, for every record     *)
(* list, whether or not the export button that calls it is enabled, and    *)
(* as the click handler of that button, which runs whenever the rendered   *)
(* button is not disabled.                                                 *)
(***************************************************************************)
EXTENDS Integers, Sequences, FiniteSets, TLC

VARIABLES
    initialFilters,   \* FiltersForm prop: the baseline (a partial filter object)
    filters,          \* FiltersForm state: useState(filters)
    debouncedValue,   \* useDebounce state: useState(value)
    timers,           \* pending setTimeout callbacks of useDebounce
    cancelled,        \* the timers the last step cleared with clearTimeout
    mounted,          \* whether FiltersForm is mounted
    submitted,        \* the onSubmit calls made by the last step, in order
    lastSubmitted,    \* the argument of the most recent onSubmit call, if any
    lastAction,       \* the handler or callback that ran last
    entered,          \* search texts the user typed since the last reset
    stale,            \* search texts typed before the last reset, not since
    data,             \* App: the record list useReportsData supplies
    exportLoading,    \* App state: useState(false)
    exportMessage,    \* App state: useState('')
    exportPc,         \* where handleExportCSV stands: "idle" or "awaiting"
    awaited,          \* the value handleExportCSV awaits while suspended
    dom,              \* the host: live object URLs, anchors in document.body
    clearTimers,      \* pending setTimeout(() => setExportMessage(''), 5000)
    exports,          \* export operations started so far
    outcome,          \* what the last export operation was given and did
    escValue,         \* the value given to escapeCSVValue
    escResult,        \* what escapeCSVValue returned last
    escPasses         \* how many times the value went through escapeCSVValue

formVars == <<initialFilters, filters, debouncedValue, timers, cancelled, mounted,
              submitted, lastSubmitted, lastAction, entered, stale>>

exportVars == <<data, exportLoading, exportMessage, exportPc, awaited, dom,
                clearTimers, exports, outcome>>

escapeVars == <<escValue, escResult, escPasses>>

(***************************************************************************)
(* Bounds of the model.                                                     *)
(***************************************************************************)
\* Granularity of the clock, in ms: the time one Tick lets pass.
TickMs == 100

\* The strings a select or a date input can hold, and those typed into search.
FieldValues == {"", "a"}
SearchValues == {"", "a", "b"}

(***************************************************************************)
(* FiltersForm: state and props.                                            *)
(***************************************************************************)
NonSearchFields == {"status", "department", "priority", "dateFrom", "dateTo"}
FilterFields == NonSearchFields \cup {"search"}

\* useDebounce(filters.search, 300)
delay == 300

\* The initialFilters props the form is mounted with: partial filter objects.
InitialFiltersSet ==
    { [x \in {} |-> ""],
      [status |-> "a"],
      [search |-> "b", dateTo |-> ""] }

\* JS: initialFilters[key] || ''   (an absent key reads undefined, '' is falsy)
OrEmpty(init, key) ==
    IF key \in DOMAIN init /\ init[key] # "" THEN init[key] ELSE ""

\* useState({ status: initialFilters.status || '', ..., ...initialFilters })
InitialState(init) ==
    [key \in FilterFields |->
        IF key \in DOMAIN init THEN init[key] ELSE OrEmpty(init, key)]

(***************************************************************************)
(* useDebounce.                                                             *)
(***************************************************************************)
\* setTimeout(() => setDebouncedValue(value), delay)
NewTimer(value) == [value |-> value, elapsed |-> 0]

\* Faulty variant: the effect returns no cleanup, so no timer is ever cleared.
CleanupNoClear(ts, value) == ts

\* The cleanup of the effect that ran for `value`: clearTimeout(timer)
Cleanup(ts, value) == {t \in ts : t.value # value}

\* Faulty variant: a dependency array without `value`; the effect runs on
\* mount only.
DebounceEffectMountOnly(ts, oldValue, newValue) == ts

\* The effect of useDebounce on a render: it re-runs when value changed.
DebounceEffect(ts, oldValue, newValue) ==
    IF oldValue # newValue
    THEN Cleanup(ts, oldValue) \cup {NewTimer(newValue)}
    ELSE ts

(***************************************************************************)
(* The auto-submit effect of FiltersForm.                                   *)
(***************************************************************************)
\* { ...filters, search: debouncedSearch }
CurrentFilters(f, d) == [f EXCEPT !["search"] = d]

\* Faulty variant: the comparison is with '' instead of the baseline.
HasChangedFromEmpty(cur, init) ==
    \E key \in DOMAIN cur : cur[key] # ""

\* Object.keys(currentFilters).some(key => currentFilters[key] !== (initialFilters[key] || ''))
HasChanged(cur, init) ==
    \E key \in DOMAIN cur : cur[key] # OrEmpty(init, key)

\* The body of the effect: onSubmit(currentFilters) if hasChanged.
AutoSubmit(f, d, init) ==
    IF HasChanged(CurrentFilters(f, d), init)
    THEN << [src |-> "auto", arg |-> CurrentFilters(f, d)] >>
    ELSE << >>

\* Faulty variant: a dependency array without filters.dateTo.
EffectDepsNoDateTo(f, d) ==
    << f.status, f.department, f.priority, f.dateFrom, d >>

\* The dependency array of the effect.
EffectDeps(f, d) ==
    << f.status, f.department, f.priority, f.dateFrom, f.dateTo, d >>

\* The effect on a re-render: it re-runs when a dependency changed.
AutoSubmitEffect(fOld, dOld, fNew, dNew, init) ==
    IF EffectDeps(fOld, dOld) # EffectDeps(fNew, dNew)
    THEN AutoSubmit(fNew, dNew, init)
    ELSE << >>

\* The argument of the last onSubmit call after a step that made `calls`.
Latest(calls, before) ==
    IF calls = << >> THEN before ELSE << calls[Len(calls)].arg >>

(***************************************************************************)
(* Handlers of FiltersForm.                                                 *)
(***************************************************************************)
\* Faulty variant: the reset object keeps the search text.
ResetFiltersKeepSearch ==
    [key \in FilterFields |-> IF key = "search" THEN filters.search ELSE ""]

\* const resetFilters = { status: '', ..., search: '' }
ResetFilters == [key \in FilterFields |-> ""]

\* handleChange(field, value), then the render and its effects
HandleChange(field, value) ==
    /\ mounted
    /\ filters' = [filters EXCEPT ![field] = value]
    /\ timers' = DebounceEffect(timers, filters.search, filters'.search)
    /\ cancelled' = timers \ timers'
    /\ submitted' = AutoSubmitEffect(filters, debouncedValue,
                                     filters', debouncedValue, initialFilters)
    /\ lastSubmitted' = Latest(submitted', lastSubmitted)
    /\ lastAction' = "change"
    /\ UNCHANGED <<initialFilters, debouncedValue, mounted, entered, stale>>
    /\ UNCHANGED exportVars
    /\ UNCHANGED escapeVars

\* handleSearchChange(e), then the render and its effects
HandleSearchChange(value) ==
    /\ mounted
    /\ filters' = [filters EXCEPT !["search"] = value]
    /\ timers' = DebounceEffect(timers, filters.search, filters'.search)
    /\ cancelled' = timers \ timers'
    /\ submitted' = AutoSubmitEffect(filters, debouncedValue,
                                     filters', debouncedValue, initialFilters)
    /\ lastSubmitted' = Latest(submitted', lastSubmitted)
    /\ lastAction' = "search"
    /\ entered' = IF value # filters.search
                  THEN entered \cup ({value} \ {""}) ELSE entered
    /\ stale' = IF value # filters.search THEN stale \ {value} ELSE stale
    /\ UNCHANGED <<initialFilters, debouncedValue, mounted>>
    /\ UNCHANGED exportVars
    /\ UNCHANGED escapeVars

\* Faulty variant: handleSubmit passes the live search text.
FiltersWithLiveSearch(f, d) == f

\* The argument handleSubmit passes: { ...filters, search: debouncedSearch }
FiltersWithDebouncedSearch(f, d) == [f EXCEPT !["search"] = d]

\* handleSubmit(e): no state changes, so no render follows
HandleSubmit ==
    /\ mounted
    /\ submitted' = << [src |-> "manual",
                        arg |-> FiltersWithDebouncedSearch(filters, debouncedValue)] >>
    /\ lastSubmitted' = Latest(submitted', lastSubmitted)
    /\ lastAction' = "submit"
    /\ cancelled' = {}
    /\ UNCHANGED <<initialFilters, filters, debouncedValue, timers, mounted,
                   entered, stale>>
    /\ UNCHANGED exportVars
    /\ UNCHANGED escapeVars

\* handleReset(), then the render and its effects
HandleReset ==
    /\ mounted
    /\ filters' = ResetFilters
    /\ timers' = DebounceEffect(timers, filters.search, filters'.search)
    /\ cancelled' = timers \ timers'
    /\ submitted' = << [src |-> "reset", arg |-> ResetFilters] >>
                    \o AutoSubmitEffect(filters, debouncedValue,
                                        filters', debouncedValue, initialFilters)
    /\ lastSubmitted' = Latest(submitted', lastSubmitted)
    /\ lastAction' = "reset"
    /\ entered' = {}
    /\ stale' = stale \cup entered
    /\ UNCHANGED <<initialFilters, debouncedValue, mounted>>
    /\ UNCHANGED exportVars
    /\ UNCHANGED escapeVars

(***************************************************************************)
(* Time and the timer callback.                                             *)
(***************************************************************************)
Min(a, b) == IF a < b THEN a ELSE b

\* TickMs pass; a timer's age is not counted beyond the delay it waits for.
Tick ==
    /\ \E t \in timers : t.elapsed < delay
    /\ timers' = { [t EXCEPT !.elapsed = Min(t.elapsed + TickMs, delay)] : t \in timers }
    /\ cancelled' = {}
    /\ submitted' = << >>
    /\ lastAction' = "tick"
    /\ UNCHANGED <<initialFilters, filters, debouncedValue, mounted, lastSubmitted,
                   entered, stale>>
    /\ UNCHANGED exportVars
    /\ UNCHANGED escapeVars

\* The callback of setTimeout runs: setDebouncedValue(value).  React drops a
\* state update of an unmounted component, and bails out of an equal one.
TimerFires(t) ==
    /\ t \in timers
    /\ t.elapsed >= delay
    /\ timers' = timers \ {t}
    /\ cancelled' = {}
    /\ debouncedValue' = IF mounted THEN t.value ELSE debouncedValue
    /\ submitted' = AutoSubmitEffect(filters, debouncedValue,
                                     filters, debouncedValue', initialFilters)
    /\ lastSubmitted' = Latest(submitted', lastSubmitted)
    /\ lastAction' = "timer"
    /\ UNCHANGED <<initialFilters, filters, mounted, entered, stale>>
    /\ UNCHANGED exportVars
    /\ UNCHANGED escapeVars

\* FiltersForm unmounts: the cleanup of the last useDebounce effect runs.
Unmount ==
    /\ mounted
    /\ mounted' = FALSE
    /\ timers' = Cleanup(timers, filters.search)
    /\ cancelled' = timers \ timers'
    /\ submitted' = << >>
    /\ lastAction' = "unmount"
    /\ UNCHANGED <<initialFilters, filters, debouncedValue, lastSubmitted,
                   entered, stale>>
    /\ UNCHANGED exportVars
    /\ UNCHANGED escapeVars

(***************************************************************************)
(* The form after its first render and the effects of that render.          *)
(***************************************************************************)
InitForm ==
    /\ initialFilters \in InitialFiltersSet
    /\ filters = InitialState(initialFilters)
    /\ debouncedValue = filters.search
    /\ timers = {NewTimer(filters.search)}
    /\ cancelled = {}
    /\ mounted = TRUE
    /\ submitted = AutoSubmit(filters, debouncedValue, initialFilters)
    /\ lastSubmitted = Latest(submitted, << >>)
    /\ lastAction = "mount"
    /\ entered = {}
    /\ stale = {}

NextForm ==
    \/ \E field \in NonSearchFields, value \in FieldValues : HandleChange(field, value)
    \/ \E value \in SearchValues : HandleSearchChange(value)
    \/ HandleSubmit
    \/ HandleReset
    \/ Tick
    \/ \E t \in timers : TimerFires(t)
    \/ Unmount

(***************************************************************************)
(* CSV export.  A string that the CSV code inspects is a sequence of        *)
(* one-character strings; messages and file names, which are only built    *)
(* and shown, are TLA+ strings.                                             *)
(***************************************************************************)
\* How many export operations a behaviour starts.
MaxExports == 2

Comma == ","
Quote == "\""
Newline == "\n"

\* null or undefined: as a cell value, as a list of records, as a list of
\* row objects and as a list of headers
NullValue == << "null" >>
NullList == << [undefined |-> TRUE] >>
NullRows == << << [undefined |-> TRUE] >> >>
NullHeaders == << NullValue >>

\* stringValue.includes(c)
Includes(s, c) == \E i \in 1..Len(s) : s[i] = c

\* stringValue.replace(/"/g, '""')
RECURSIVE ReplaceQuotes(_)
ReplaceQuotes(s) ==
    IF s = << >> THEN << >>
    ELSE (IF Head(s) = Quote THEN << Quote, Quote >> ELSE << Head(s) >>)
         \o ReplaceQuotes(Tail(s))

escapeCSVValueNoNewline(value) ==
    IF value = NullValue THEN << >>
    ELSE IF Includes(value, Comma) \/ Includes(value, Quote)
         THEN << Quote >> \o ReplaceQuotes(value) \o << Quote >>
         ELSE value

escapeCSVValue(value) ==
    IF value = NullValue THEN << >>
    ELSE IF Includes(value, Comma) \/ Includes(value, Quote) \/ Includes(value, Newline)
         THEN << Quote >> \o ReplaceQuotes(value) \o << Quote >>
         ELSE value

\* parts.join(sep)
RECURSIVE Join(_, _)
Join(parts, sep) ==
    IF parts = << >> THEN << >>
    ELSE IF Len(parts) = 1 THEN parts[1]
    ELSE parts[1] \o sep \o Join(Tail(parts), sep)

\* An object is the sequence of its [key, value] properties, in insertion order.
Keys(row) == [i \in 1..Len(row) |-> row[i].key]

\* row[header]: undefined when the object has no such property
Prop(row, key) ==
    IF \E i \in 1..Len(row) : row[i].key = key
    THEN row[CHOOSE i \in 1..Len(row) : row[i].key = key].value
    ELSE NullValue

Digits == {"0", "1", "2", "3", "4", "5", "6", "7", "8", "9"}

\* value.match(/^\d{4}-\d{2}-\d{2}T\d{2}:\d{2}:\d{2}/), on a string
DatePattern ==
    << "d", "d", "d", "d", "-", "d", "d", "-", "d", "d", "T",
       "d", "d", ":", "d", "d", ":", "d", "d" >>

MatchesDateString(value) ==
    /\ value # NullValue
    /\ Len(value) >= Len(DatePattern)
    /\ \A i \in 1..Len(DatePattern) :
          IF DatePattern[i] = "d" THEN value[i] \in Digits
                                  ELSE value[i] = DatePattern[i]

\* new Date(value).toLocaleDateString() of a UTC timestamp, in the en-US
\* locale and a UTC time zone: M/D/YYYY
StripZero(s) == IF Head(s) = "0" THEN Tail(s) ELSE s

ToLocaleDateString(value) ==
    StripZero(SubSeq(value, 6, 7)) \o << "/" >>
    \o StripZero(SubSeq(value, 9, 10)) \o << "/" >> \o SubSeq(value, 1, 4)

\* One cell of convertToCSV (no Date object reaches it: the rows hold strings)
Cell(value) ==
    IF MatchesDateString(value)
    THEN escapeCSVValue(ToLocaleDateString(value))
    ELSE escapeCSVValue(value)

convertToCSV(rows, headers) ==
    IF rows = NullRows \/ Len(rows) = 0 THEN << >>
    ELSE LET csvHeaders == IF headers # NullHeaders THEN headers ELSE Keys(rows[1])
             headerRow == Join([i \in 1..Len(csvHeaders) |->
                                   escapeCSVValue(csvHeaders[i])], << Comma >>)
             dataRows == [r \in 1..Len(rows) |->
                            Join([i \in 1..Len(csvHeaders) |->
                                     Cell(Prop(rows[r], csvHeaders[i]))], << Comma >>)]
         IN  Join(<< headerRow >> \o dataRows, << Newline >>)

REPORTS_CSV_HEADERS ==
    << << "I", "D" >>,
       << "T", "i", "t", "l", "e" >>,
       << "S", "t", "a", "t", "u", "s" >>,
       << "D", "e", "p", "a", "r", "t", "m", "e", "n", "t" >>,
       << "P", "r", "i", "o", "r", "i", "t", "y" >>,
       << "A", "u", "t", "h", "o", "r" >>,
       << "C", "r", "e", "a", "t", "e", "d", " ", "D", "a", "t", "e" >>,
       << "U", "p", "d", "a", "t", "e", "d", " ", "D", "a", "t", "e" >>,
       << "R", "e", "c", "o", "r", "d", " ", "C", "o", "u", "n", "t" >>,
       << "F", "i", "l", "e", " ", "S", "i", "z", "e" >>,
       << "E", "x", "e", "c", "u", "t", "i", "o", "n", " ", "T", "i", "m", "e" >> >>

\* x || '' of a metric (a number is its digits; 0, '', null and undefined are falsy)
OrBlank(value) ==
    IF value = NullValue \/ value = << >> \/ value = << "0" >> THEN << >> ELSE value

\* x ? new Date(x).toLocaleDateString() : ''
DateOrBlank(value) ==
    IF value = NullValue \/ value = << >> THEN << >> ELSE ToLocaleDateString(value)

formatReportsForCSV(reports) ==
    IF reports = NullList \/ Len(reports) = 0 THEN << >>
    ELSE [r \in 1..Len(reports) |->
            << [key |-> REPORTS_CSV_HEADERS[1], value |-> reports[r].id],
               [key |-> REPORTS_CSV_HEADERS[2], value |-> reports[r].title],
               [key |-> REPORTS_CSV_HEADERS[3], value |-> reports[r].status],
               [key |-> REPORTS_CSV_HEADERS[4], value |-> reports[r].department],
               [key |-> REPORTS_CSV_HEADERS[5], value |-> reports[r].priority],
               [key |-> REPORTS_CSV_HEADERS[6], value |-> reports[r].author],
               [key |-> REPORTS_CSV_HEADERS[7], value |-> DateOrBlank(reports[r].createdAt)],
               [key |-> REPORTS_CSV_HEADERS[8], value |-> DateOrBlank(reports[r].updatedAt)],
               [key |-> REPORTS_CSV_HEADERS[9], value |-> OrBlank(reports[r].recordCount)],
               [key |-> REPORTS_CSV_HEADERS[10], value |-> OrBlank(reports[r].fileSize)],
               [key |-> REPORTS_CSV_HEADERS[11], value |-> OrBlank(reports[r].executionTime)] >>]

\* new Date().toISOString().split('T')[0]
Dates == {"2026-11-02"}

Report1 ==
    [id |-> << "1" >>, title |-> << "A", ",", "B" >>, status |-> << "d" >>,
     department |-> << "I", "T" >>, priority |-> << "l", "o", "w" >>,
     author |-> << "x" >>,
     createdAt |-> << "2", "0", "2", "4", "-", "0", "1", "-", "0", "2", "T",
                      "0", "3", ":", "0", "4", ":", "0", "5", "Z" >>,
     updatedAt |-> NullValue, recordCount |-> << "0" >>,
     fileSize |-> NullValue, executionTime |-> << "7" >>]

Report2 ==
    [id |-> << "2" >>, title |-> << "q", Quote, Newline >>, status |-> << "p" >>,
     department |-> << "H", "R" >>, priority |-> << "h" >>, author |-> NullValue,
     createdAt |-> NullValue,
     updatedAt |-> << "2", "0", "2", "4", "-", "1", "2", "-", "3", "1", "T",
                      "2", "3", ":", "5", "9", ":", "5", "9", "Z" >>,
     recordCount |-> << "1", "2" >>, fileSize |-> << "3" >>,
     executionTime |-> NullValue]

\* The record lists useReportsData supplies.
DataSet == { NullList, << >>, << Report1 >>, << Report1, Report2 >> }

\* The arguments of a direct call of exportAsCSV.
DirectLists == { NullRows, << >>, formatReportsForCSV(<< Report1 >>) }
DirectHeaders == { NullHeaders, REPORTS_CSV_HEADERS }

\* The row lists and header lists the model hands to convertToCSV.
RowLists == DirectLists \cup {formatReportsForCSV(list) : list \in DataSet}

\* formatReportsForCSV and convertToCSV over the inputs of the model, as
\* tables: constants, evaluated once.
RECURSIVE FormattedTable(_)
FormattedTable(lists) ==
    IF lists = {} THEN << >>
    ELSE LET list == CHOOSE l \in lists : TRUE
         IN  (list :> formatReportsForCSV(list)) @@ FormattedTable(lists \ {list})

RECURSIVE CsvTable(_)
CsvTable(pairs) ==
    IF pairs = {} THEN << >>
    ELSE LET pair == CHOOSE q \in pairs : TRUE
         IN  (pair :> convertToCSV(pair[1], pair[2])) @@ CsvTable(pairs \ {pair})

FormattedRows == FormattedTable(DataSet)

CsvContent == CsvTable(RowLists \X DirectHeaders)

(***************************************************************************)
(* downloadFile: the calls it makes to the host, in order.  The host may    *)
(* make any one of them throw (`fault`).                                    *)
(***************************************************************************)
HostCalls ==
    << "Blob", "createObjectURL", "createElement", "appendChild",
       "click", "removeChild", "revokeObjectURL" >>

Faults == {"none"} \cup {HostCalls[i] : i \in 1..Len(HostCalls)}

\* What a call that returns does to the host.
HostEffect(d, call, content, filename) ==
    CASE call = "createObjectURL" -> [d EXCEPT !.urls = @ + 1]
      [] call = "appendChild"     -> [d EXCEPT !.anchors = @ + 1]
      [] call = "click"           -> [d EXCEPT !.saved = << filename, content >>]
      [] call = "removeChild"     -> [d EXCEPT !.anchors = @ - 1]
      [] call = "revokeObjectURL" -> [d EXCEPT !.urls = @ - 1]
      [] OTHER                    -> d

\* try { ...the calls from the i-th on... } catch { throw new Error('Failed to download file') }
RECURSIVE TryHostCalls(_, _, _, _, _, _)
TryHostCalls(d, i, fault, content, filename, made) ==
    IF i > Len(HostCalls)
    THEN [kind |-> "return", message |-> "", dom |-> d, calls |-> made]
    ELSE IF HostCalls[i] = fault
    THEN [kind |-> "throw", message |-> "Failed to download file",
          dom |-> d, calls |-> Append(made, HostCalls[i])]
    ELSE TryHostCalls(HostEffect(d, HostCalls[i], content, filename), i + 1,
                      fault, content, filename, Append(made, HostCalls[i]))

downloadFile(d, content, filename, fault) ==
    TryHostCalls(d, 1, fault, content, filename, << >>)

(***************************************************************************)
(* exportAsCSV: its result is what it returns or the Error it throws, the   *)
(* host as it leaves it, and the host calls it made.                        *)
(***************************************************************************)
NoResult == [success |-> FALSE, filename |-> ""]

exportAsCSV(d, rows, baseFilename, headers, fault, today) ==
    LET csvContent == CsvContent[<< rows, headers >>]
        filename == baseFilename \o "-" \o today \o ".csv"
        dl == downloadFile(d, csvContent, filename, fault)
    IN  IF rows = NullRows \/ Len(rows) = 0
        THEN [kind |-> "throw", message |-> "CSV export failed: " \o "No data to export",
              value |-> NoResult, dom |-> d, calls |-> << >>]
        ELSE IF csvContent = << >>
        THEN [kind |-> "throw",
              message |-> "CSV export failed: " \o "Failed to convert data to CSV format",
              value |-> NoResult, dom |-> d, calls |-> << >>]
        ELSE IF dl.kind = "throw"
        THEN [kind |-> "throw", message |-> "CSV export failed: " \o dl.message,
              value |-> NoResult, dom |-> dl.dom, calls |-> dl.calls]
        ELSE [kind |-> "return", message |-> "",
              value |-> [success |-> TRUE, filename |-> filename],
              dom |-> dl.dom, calls |-> dl.calls]

(***************************************************************************)
(* App: handleExportCSV.  It is an async function: it runs to its `await`   *)
(* (or to its return), and what follows the await runs as a microtask,      *)
(* before any other event or timer callback.                                *)
(***************************************************************************)
NoError == [thrown |-> FALSE, message |-> ""]

NoAwait == [value |-> NoResult, count |-> 0]

\* Faulty variant: handleExportCSV without its own check of the list.
NoDataToExportNever(list) == FALSE

\* if (!data || data.length === 0)
NoDataToExport(list) == list = NullList \/ Len(list) = 0

\* Faulty variant: no catch block; the finally block still runs and the
\* Error leaves handleExportCSV.
RethrowExportError(r) ==
    [pc |-> "idle", loading |-> FALSE, message |-> "",
     newTimers |-> 0, awaited |-> [value |-> [success |-> FALSE, filename |-> ""], count |-> 0],
     dom |-> r.dom, calls |-> r.calls,
     escaped |-> [thrown |-> TRUE, message |-> r.message]]

\* catch (error) { setExportMessage(`Export failed: ${error.message}`);
\*                 setTimeout(...) } finally { setExportLoading(false) }
CatchExportError(r) ==
    [pc |-> "idle", loading |-> FALSE, message |-> "Export failed: " \o r.message,
     newTimers |-> 1, awaited |-> NoAwait, dom |-> r.dom, calls |-> r.calls,
     escaped |-> NoError]

\* handleExportCSV from its start to its first suspension or its return
handleExportCSV(d, list, fault, today) ==
    LET r == exportAsCSV(d, FormattedRows[list], "reports-export",
                         REPORTS_CSV_HEADERS, fault, today)
    IN  IF NoDataToExport(list)
        THEN [pc |-> "idle", loading |-> FALSE, message |-> "No data to export",
              newTimers |-> 0, awaited |-> NoAwait, dom |-> d, calls |-> << >>,
              escaped |-> NoError]
        ELSE IF r.kind = "throw"
        THEN CatchExportError(r)
        ELSE [pc |-> "awaiting", loading |-> TRUE, message |-> "",
              newTimers |-> 0, awaited |-> [value |-> r.value, count |-> Len(list)],
              dom |-> r.dom, calls |-> r.calls, escaped |-> NoError]

\* The kind of list an operation was given: of records, of row objects.
InputKind(list) ==
    IF list = NullList THEN "absent" ELSE IF Len(list) = 0 THEN "empty" ELSE "rows"

RowsKind(rows) ==
    IF rows = NullRows THEN "absent" ELSE IF Len(rows) = 0 THEN "empty" ELSE "rows"

\* The last export operation: which, on what input, under which host fault,
\* the host calls it made, the exception that left it, and whether it
\* reported success.
Outcome(op, input, fault, calls, escaped, success) ==
    [op |-> op, input |-> input, fault |-> fault, calls |-> calls,
     escaped |-> escaped, success |-> success]

NoOutcome(op) == Outcome(op, "none", "none", << >>, NoError, FALSE)

\* handleExportCSV is called
HandleExportCSV(fault, today) ==
    /\ exportPc = "idle"
    /\ exports < MaxExports
    /\ LET r == handleExportCSV(dom, data, fault, today)
       IN  /\ exportPc' = r.pc
           /\ exportLoading' = r.loading
           /\ exportMessage' = r.message
           /\ clearTimers' = clearTimers + r.newTimers
           /\ awaited' = r.awaited
           /\ dom' = r.dom
           /\ outcome' = Outcome("handleExportCSV", InputKind(data), fault,
                                 r.calls, r.escaped, FALSE)
    /\ exports' = exports + 1
    /\ UNCHANGED data
    /\ UNCHANGED formVars
    /\ UNCHANGED escapeVars

\* disabled={exportLoading || !data || data.length === 0}
ExportButtonDisabledNoLoading(loading, list) ==
    list = NullList \/ Len(list) = 0

ExportButtonDisabled(loading, list) ==
    loading \/ list = NullList \/ Len(list) = 0

\* The export button is clicked: onClick={handleExportCSV}. Only the disabled
\* attribute of the rendered button stands between a click and the handler.
ClickExportButton(fault, today) ==
    /\ ~ExportButtonDisabled(exportLoading, data)
    /\ exports < MaxExports
    /\ LET r == handleExportCSV(dom, data, fault, today)
       IN  /\ exportPc' = r.pc
           /\ exportLoading' = r.loading
           /\ exportMessage' = r.message
           /\ clearTimers' = clearTimers + r.newTimers
           /\ awaited' = r.awaited
           /\ dom' = r.dom
           /\ outcome' = Outcome("handleExportCSV", InputKind(data), fault,
                                 r.calls, r.escaped, FALSE)
    /\ exports' = exports + 1
    /\ UNCHANGED data
    /\ UNCHANGED formVars
    /\ UNCHANGED escapeVars

\* handleExportCSV resumes after `await`: if (result.success) {...} finally {...}
ExportResumes ==
    /\ exportPc = "awaiting"
    /\ exportMessage' =
          IF awaited.value.success
          THEN "Successfully exported " \o ToString(awaited.count)
               \o " reports to " \o awaited.value.filename
          ELSE exportMessage
    /\ clearTimers' = IF awaited.value.success THEN clearTimers + 1 ELSE clearTimers
    /\ exportLoading' = FALSE
    /\ exportPc' = "idle"
    /\ awaited' = NoAwait
    /\ outcome' = [outcome EXCEPT !.success = awaited.value.success]
    /\ UNCHANGED <<data, dom, exports>>
    /\ UNCHANGED formVars
    /\ UNCHANGED escapeVars

\* exportAsCSV is called directly, by a caller that catches nothing
CallExportAsCSV(list, headers, fault, today) ==
    /\ exportPc = "idle"
    /\ exports < MaxExports
    /\ LET r == exportAsCSV(dom, list, "export", headers, fault, today)
       IN  /\ dom' = r.dom
           /\ outcome' = Outcome("exportAsCSV", RowsKind(list), fault, r.calls,
                                 [thrown |-> r.kind = "throw", message |-> r.message],
                                 r.value.success)
    /\ exports' = exports + 1
    /\ UNCHANGED <<data, exportLoading, exportMessage, exportPc, awaited, clearTimers>>
    /\ UNCHANGED formVars
    /\ UNCHANGED escapeVars

\* A timer set by handleExportCSV fires: setExportMessage('')
ClearMessageFires ==
    /\ exportPc = "idle"
    /\ clearTimers > 0
    /\ clearTimers' = clearTimers - 1
    /\ exportMessage' = ""
    /\ outcome' = NoOutcome("clearMessage")
    /\ UNCHANGED <<data, exportLoading, exportPc, awaited, dom, exports>>
    /\ UNCHANGED formVars
    /\ UNCHANGED escapeVars

\* useReportsData supplies another record list
LoadData(list) ==
    /\ exportPc = "idle"
    /\ list # data
    /\ data' = list
    /\ outcome' = NoOutcome("load")
    /\ UNCHANGED <<exportLoading, exportMessage, exportPc, awaited, dom,
                   clearTimers, exports>>
    /\ UNCHANGED formVars
    /\ UNCHANGED escapeVars

InitExport ==
    /\ data = << >>
    /\ exportLoading = FALSE
    /\ exportMessage = ""
    /\ exportPc = "idle"
    /\ awaited = NoAwait
    /\ dom = [urls |-> 0, anchors |-> 0, saved |-> << >>]
    /\ clearTimers = 0
    /\ exports = 0
    /\ outcome = NoOutcome("none")

NextExport ==
    \/ \E fault \in Faults, today \in Dates : HandleExportCSV(fault, today)
    \/ \E fault \in Faults, today \in Dates : ClickExportButton(fault, today)
    \/ ExportResumes
    \/ \E list \in DirectLists, headers \in DirectHeaders,
          fault \in Faults, today \in Dates :
          CallExportAsCSV(list, headers, fault, today)
    \/ ClearMessageFires
    \/ \E list \in DataSet : LoadData(list)

(***************************************************************************)
(* escapeCSVValue on its own: a value, escaped, and the result escaped     *)
(* once more.                                                               *)
(***************************************************************************)
\* Longest string given to escapeCSVValue.
MaxLen == 3

\* The characters of those strings: two ordinary ones and the three that
\* escapeCSVValue looks for.
EscapeChars == {"a", "b", Comma, Quote, Newline}

RECURSIVE StringsUpTo(_)
StringsUpTo(n) ==
    IF n = 0 THEN { << >> }
    ELSE LET shorter == StringsUpTo(n - 1)
         IN  shorter \cup {Append(s, c) : s \in {t \in shorter : Len(t) = n - 1},
                                          c \in EscapeChars}

\* null/undefined and every string of at most MaxLen characters
EscapeValues == {NullValue} \cup StringsUpTo(MaxLen)

\* escapeCSVValue(value)
EscapeValue ==
    /\ escPasses = 0
    /\ escResult' = escapeCSVValue(escValue)
    /\ escPasses' = 1
    /\ UNCHANGED escValue
    /\ UNCHANGED <<formVars, exportVars>>

\* escapeCSVValue(escapeCSVValue(value))
EscapeAgain ==
    /\ escPasses = 1
    /\ escResult' = escapeCSVValue(escResult)
    /\ escPasses' = 2
    /\ UNCHANGED escValue
    /\ UNCHANGED <<formVars, exportVars>>

\* No value has been escaped.
InitEscape ==
    /\ escValue = NullValue
    /\ escResult = << >>
    /\ escPasses = 0

\* Any value is about to be escaped.
InitEscapeAny ==
    /\ escValue \in EscapeValues
    /\ escResult = << >>
    /\ escPasses = 0

NextEscape ==
    \/ EscapeValue
    \/ EscapeAgain

vars == <<formVars, exportVars, escapeVars>>

Init == InitForm /\ InitExport /\ InitEscape

Next == NextForm

\* The filter form.
Spec == Init /\ [][Next]_vars

\* The CSV export.
SpecExport == Init /\ [][NextExport]_vars

\* As Init, with any value about to be escaped.
InitAnyValue == InitForm /\ InitExport /\ InitEscapeAny

\* escapeCSVValue, for every value of EscapeValues.
SpecEscape == InitAnyValue /\ [][NextEscape]_vars

\* The filter form, with time passing and due timers firing.
FairSpec ==
    /\ Init
    /\ [][Next]_vars
    /\ WF_vars(Tick)
    /\ WF_vars(\E t \in timers : TimerFires(t))


(***************************************************************************)
(* Properties.                                                              *)
(***************************************************************************)
\* The baseline value of a field: its initialFilters value, '' when absent.
Baseline(key) ==
    IF key \in DOMAIN initialFilters THEN initialFilters[key] ELSE ""

\* The combined filters: the form's fields with the debounced search.
Combined == [filters EXCEPT !["search"] = debouncedValue]

AtBaseline == \A key \in FilterFields : Combined[key] = Baseline(key)

AllEmpty ==
    [status |-> "", department |-> "", priority |-> "",
     dateFrom |-> "", dateTo |-> "", search |-> ""]

IsAuto(call) == call.src = "auto"
IsReset(call) == call.src = "reset"

\* C1: useDebounce: on first mount the debounced output is the initial
\* input; while the form is mounted the only pending update is one for the
\* latest input, and with none pending the output is the latest input; and an
\* input that stays is, once its delay has passed and its timer has run, the
\* debounced output.
C1_DebouncedFollowsInput ==
    /\ debouncedValue = filters.search
    /\ [](mounted => /\ \A t \in timers : t.value = filters.search
                     /\ timers = {} => debouncedValue = filters.search)
    /\ \A v \in SearchValues :
          (mounted /\ filters.search = v)
             ~> (~mounted \/ filters.search # v \/ debouncedValue = v)

C1_Witness ==
    /\ mounted
    /\ lastAction = "timer"
    /\ timers = {}
    /\ debouncedValue = filters.search
    /\ debouncedValue # InitialState(initialFilters).search

\* C2: useDebounce: at most one update is pending, and it is for the latest
\* input; the output changes only when the pending update's full delay has
\* passed since the last input change, and then to the latest input; an input
\* change never changes the output and restarts the delay; a step that leaves
\* the input alone schedules nothing, so one quiet period updates the output
\* at most once.
C2_NoIntermediateValue ==
    /\ [](/\ Cardinality(timers) <= 1
          /\ \A t \in timers : t.value = filters.search)
    /\ [][debouncedValue' # debouncedValue =>
            /\ \E t \in timers : t.elapsed >= delay
            /\ filters'.search = filters.search
            /\ debouncedValue' = filters.search
            /\ timers' = {}]_vars
    /\ [][filters'.search # filters.search =>
            /\ debouncedValue' = debouncedValue
            /\ \A t \in timers' : t.elapsed = 0]_vars
    /\ [][filters'.search = filters.search =>
            Cardinality(timers') <= Cardinality(timers)]_vars

C2_Witness ==
    /\ lastAction = "search"
    /\ \E t \in cancelled : /\ t.elapsed < delay
                            /\ t.value # debouncedValue
                            /\ t.value # filters.search
    /\ Cardinality(timers) = 1

\* C3: after handleReset every field of the form is '', and the handler has
\* called onSubmit exactly once, first, with the all-empty filter object.
C3_ResetEmitsAllEmpty ==
    lastAction = "reset" =>
        /\ filters = AllEmpty
        /\ Len(submitted) >= 1
        /\ submitted[1] = [src |-> "reset", arg |-> AllEmpty]
        /\ Len(SelectSeq(submitted, IsReset)) = 1

C3_Witness ==
    /\ lastAction = "reset"
    /\ debouncedValue = "a"
    /\ \E t \in cancelled : t.value = "a" /\ t.elapsed < delay
    /\ \E t \in timers : t.value = ""

\* C4: when the combined filters equal the baseline in every field, the
\* auto-submit effect has not called onSubmit (on mount and after every step).
C4_NoAutoEmissionAtBaseline ==
    AtBaseline => SelectSeq(submitted, IsAuto) = << >>

C4_Witness ==
    /\ lastAction = "change"
    /\ AtBaseline
    /\ submitted = << >>
    /\ lastSubmitted # << >>
    /\ lastSubmitted # << Combined >>
    /\ initialFilters = [status |-> "a"]

\* C8: a step that changes a non-search field or the debounced search, and
\* leaves the combined filters different from the baseline, makes the
\* auto-submit effect call onSubmit exactly once, with the form's fields and
\* the debounced search.
C8_OneAutoEmissionPerChange ==
    [][(/\ \/ \E key \in NonSearchFields : filters'[key] # filters[key]
           \/ debouncedValue' # debouncedValue
        /\ \E key \in FilterFields :
              [filters' EXCEPT !["search"] = debouncedValue'][key]
                 # (IF key \in DOMAIN initialFilters THEN initialFilters[key] ELSE ""))
       => SelectSeq(submitted', IsAuto)
            = << [src |-> "auto",
                  arg |-> [filters' EXCEPT !["search"] = debouncedValue']] >>]_vars

C8_Witness ==
    /\ lastAction = "change"
    /\ Len(submitted) = 1
    /\ submitted[1].src = "auto"
    /\ submitted[1].arg.search = debouncedValue
    /\ submitted[1].arg.search # filters.search
    /\ submitted[1].arg.dateTo = "a"

\* C9: handleSubmit calls onSubmit exactly once, with the form's fields and
\* the debounced search, whether or not they differ from the baseline, and
\* changes neither the fields nor the debounced search nor the pending timer.
C9_ManualSubmit ==
    [][lastAction' = "submit" =>
          /\ filters' = filters
          /\ debouncedValue' = debouncedValue
          /\ timers' = timers
          /\ submitted' = << [src |-> "manual",
                              arg |-> [filters EXCEPT !["search"] = debouncedValue]] >>]_vars

C9_Witness ==
    /\ lastAction = "submit"
    /\ AtBaseline
    /\ filters.search # debouncedValue
    /\ Len(submitted) = 1
    /\ submitted[1].arg = Combined

\* C10: once the form is unmounted no useDebounce timer is pending, the
\* debounced output no longer changes and onSubmit is no longer called.
C10_UnmountCancelsTimer ==
    /\ [](~mounted => timers = {})
    /\ [][~mounted => /\ debouncedValue' = debouncedValue
                      /\ submitted' = << >>
                      /\ lastSubmitted' = lastSubmitted]_vars

C10_Witness ==
    /\ ~mounted
    /\ lastAction = "unmount"
    /\ \E t \in cancelled : t.value = filters.search
    /\ debouncedValue # filters.search

\* C5, as stated: with an empty or absent list, neither handleExportCSV nor
\* exportAsCSV makes a host call, and neither lets an exception escape.
C5_AsStated ==
    (outcome.op \in {"handleExportCSV", "exportAsCSV"}
       /\ outcome.input \in {"absent", "empty"})
    => /\ outcome.calls = << >>
       /\ ~outcome.escaped.thrown
       /\ outcome.op = "handleExportCSV" => exportMessage = "No data to export"

\* C5: with an empty or absent list neither operation makes a host call;
\* handleExportCSV ends with the message 'No data to export', not loading and
\* with no exception; exportAsCSV throws the Error
\* 'CSV export failed: No data to export' to its caller.
C5_NoDataNoDownload ==
    (outcome.op \in {"handleExportCSV", "exportAsCSV"}
       /\ outcome.input \in {"absent", "empty"})
    => /\ outcome.calls = << >>
       /\ ~outcome.success
       /\ outcome.op = "handleExportCSV" =>
             /\ ~outcome.escaped.thrown
             /\ exportMessage = "No data to export"
             /\ exportPc = "idle"
             /\ ~exportLoading
       /\ outcome.op = "exportAsCSV" =>
             outcome.escaped = [thrown |-> TRUE,
                                message |-> "CSV export failed: No data to export"]

C5_Witness ==
    /\ outcome.op = "handleExportCSV"
    /\ outcome.input = "absent"
    /\ outcome.fault = "click"
    /\ exportMessage = "No data to export"

\* C6: no export operation ends with a live object URL or with an anchor
\* still in document.body.
C6_ResourcesReleased ==
    exportPc = "idle" => dom.urls = 0 /\ dom.anchors = 0

\* C7: when handleExportCSV is given no data, or the host makes a call of the
\* download throw, it ends with no exception escaping, with no success
\* reported and with a failure message made from the error.
C7_FailureBecomesMessage ==
    (outcome.op = "handleExportCSV"
       /\ (outcome.input # "rows" \/ outcome.fault # "none"))
    => /\ exportPc = "idle"
       /\ ~exportLoading
       /\ ~outcome.escaped.thrown
       /\ ~outcome.success
       /\ exportMessage # ""
       /\ exportMessage =
             (IF outcome.input # "rows"
              THEN "No data to export"
              ELSE "Export failed: CSV export failed: Failed to download file")

C7_Witness ==
    /\ outcome.op = "handleExportCSV"
    /\ outcome.input = "rows"
    /\ outcome.fault = "click"
    /\ outcome.calls # << >>
    /\ exportMessage = "Export failed: CSV export failed: Failed to download file"

\* Property helpers for escapeCSVValue.
\* s holds no comma, no double quote and no newline.
Plain(s) == \A i \in 1..Len(s) : s[i] \notin {Comma, Quote, Newline}

\* Every double quote of s is one of a pair of adjacent double quotes.
RECURSIVE QuotesPaired(_)
QuotesPaired(s) ==
    IF s = << >> THEN TRUE
    ELSE IF Head(s) # Quote THEN QuotesPaired(Tail(s))
    ELSE Len(s) >= 2 /\ s[2] = Quote /\ QuotesPaired(Tail(Tail(s)))

\* r starts and ends with a double quote, and the quotes between are paired.
Quoted(r) ==
    /\ Len(r) >= 2
    /\ r[1] = Quote
    /\ r[Len(r)] = Quote
    /\ QuotesPaired(SubSeq(r, 2, Len(r) - 1))

\* C11: escapeCSVValue maps null/undefined to the empty string; a string
\* with no comma, double quote or newline comes back unchanged, also when it
\* is escaped a second time; a string with a comma, double quote or newline
\* comes back between two double quotes with every double quote between
\* them doubled.
C11_EscapeCSVValue ==
    escPasses >= 1 =>
        /\ escValue = NullValue => escResult = << >>
        /\ (escValue # NullValue /\ Plain(escValue)) => escResult = escValue
        /\ (escValue # NullValue /\ ~Plain(escValue)) => Quoted(escResult)

\* A value with a newline, a double quote and a comma has been escaped once.
C11_Witness ==
    /\ escPasses = 1
    /\ escValue = << Newline, Quote, Comma >>
    /\ escResult = << Quote, Newline, Quote, Quote, Comma, Quote >>

\* C12: while an export is in progress exportLoading is true and the export
\* button is disabled; no export starts while one is in progress; and when
\* no export is in progress (after success, failure and the no-data return
\* alike) exportLoading is false.
C12_NoSecondExport ==
    /\ [](exportPc = "awaiting" =>
              exportLoading /\ ExportButtonDisabled(exportLoading, data))
    /\ [][exportPc = "awaiting" => exports' = exports]_vars
    /\ [](exportPc = "idle" => ~exportLoading)

\* An export of a non-empty list is in progress, and another could still
\* be started.
C12_Witness ==
    /\ exportPc = "awaiting"
    /\ exportLoading
    /\ data # NullList
    /\ Len(data) > 0
    /\ exports < MaxExports

\* C13: no emission carries a search text that the user typed before the
\* last reset and has not typed again since, nor a field value other than
\* the one the form holds (which after a reset is '' until the user enters
\* another): an emission made after handleReset's all-empty emission
\* reflects the reset.
C13_NoStaleEmissionAfterReset ==
    \A i \in 1..Len(submitted) :
        /\ submitted[i].arg.search \notin stale
        /\ \A key \in NonSearchFields : submitted[i].arg[key] = filters[key]

\* The form is quiescent: no debounce timer is pending and the debounced
\* search equals the live search.
Quiescent == timers = {} /\ debouncedValue = filters.search

\* C14: once an emission has occurred and the form is quiescent, the most
\* recently emitted filter object equals the form's current field values.
C14_LastEmissionIsCurrent ==
    (lastSubmitted # << >> /\ Quiescent) => lastSubmitted = << filters >>

\* The same for a mounted form of which some field differs from the
\* initialFilters baseline (at the baseline the auto-submit effect emits
\* nothing, so a return to the baseline is never emitted).
LastEmissionIsCurrentAwayFromBaseline ==
    (mounted /\ Quiescent /\ ~AtBaseline) => lastSubmitted = << filters >>

=============================================================================
